---- MODULE Spec2Model ----
(***************************************************************************)
(* Word-ladder graphs (src/graph.py, src/features.py).                     *)
(*                                                                         *)
(* A Python str is modelled as a sequence of one-character TLA+ strings,   *)
(* so that it can be indexed, zipped and concatenated.  A call that may    *)
(* raise returns a record [exc, val]: exc = "none" and the value returned, *)
(* or the name of the exception raised.                                    *)
(***************************************************************************)
EXTENDS Integers, Sequences, FiniteSets, TLC

VARIABLES
    \* ---- find_hamming_distance / get_hamming_distance called directly
    string1, string2,   \* the two arguments
    hresult,            \* outcome of graph.find_hamming_distance
    gresult,            \* outcome of features.get_hamming_distance
    hpc,                \* "call" before the call, "done" after it
    \* ---- the commands build / build_graph / analyze
    pc,                 \* position in the command being run
    alphabet,           \* --alphabet, a str
    word_length,        \* --word-length
    valid_words,        \* set(file.read().splitlines())
    connect,            \* --connect of features.build_graph
    nodes,              \* the list of all possible words
    G,                  \* the nx.Graph under construction, then pickled
    valid_word_nodes,   \* list of nodes tagged is_valid_word
    i, j,               \* loop indices of the pairwise pass (1-based)
    nassign,            \* per node: how many times is_valid_word was stored
    err,                \* exception that ended the command, or "none"
    \* ---- analyze
    aloof,              \* --aloof
    diameter,           \* --diameter
    betweenness,        \* --betweenness
    view,               \* the graph the analyses run on (G or G.subgraph)
    ranking,            \* what find_betweenness_centrality printed
    report              \* what find_diameter printed

hvars == <<string1, string2, hresult, gresult, hpc>>
bvars == <<pc, alphabet, word_length, valid_words, connect, nodes, G,
           valid_word_nodes, i, j, nassign, err>>
avars == <<aloof, diameter, betweenness, view, ranking, report>>
vars  == <<hvars, bvars, avars>>

-----------------------------------------------------------------------------
(* Bounds of the model *)

\* longest word length tried (--word-length in 0..MaxWordLen)
MaxWordLen == 3
\* largest node universe built: |alphabet|^word_length <= MaxNodes
MaxNodes == 9
\* longest string handed directly to the Hamming functions
MaxStrLen == 3

\* the alphabets tried; "aa" repeats a character
Alphabets ==
    { <<>>, <<"a">>, <<"a", "b">>, <<"b", "a">>, <<"a", "a">>,
      <<"a", "b", "c">> }

\* lines of the word file that need not be nodes of the universe
StrayWords == { <<"a">>, <<"a", "b", "b", "a", "b">> }

\* characters of the strings handed directly to the Hamming functions
HammingChars == {"a", "b"}

-----------------------------------------------------------------------------
(* Helpers *)

Min(a, b) == IF a <= b THEN a ELSE b

Range(s) == { s[k] : k \in DOMAIN s }

RECURSIVE Pow(_, _)
Pow(k, n) == IF n = 0 THEN 1 ELSE k * Pow(k, n - 1)

\* all strings of length at most n over the characters C
StringsUpTo(C, n) == UNION { [1..m -> C] : m \in 0..n }

Return(v) == [exc |-> "none", val |-> v]
Raise(e)  == [exc |-> e, val |-> 0]
NoResult  == [exc |-> "pending", val |-> 0]

\* nothing printed by find_betweenness_centrality (yet)
NoRanking == [printed |-> FALSE, top |-> <<>>]

\* nothing printed by find_diameter (yet)
NoReport == [printed |-> FALSE, diameter |-> 0, path |-> <<>>]

-----------------------------------------------------------------------------
(* The Hamming distance: graph.py 47-51, features.py 15-19 *)

\* zip(string1, string2): stops at the shorter argument
zip(s, t) == [k \in 1..Min(Len(s), Len(t)) |-> <<s[k], t[k]>>]

\* sum(char1 != char2 for char1, char2 in pairs)
RECURSIVE sum_ne(_)
sum_ne(pairs) ==
    IF Len(pairs) = 0 THEN 0
    ELSE (IF pairs[1][1] # pairs[1][2] THEN 1 ELSE 0) + sum_ne(Tail(pairs))

\* mutant: the length check is missing, zip truncates silently
hamming_no_length_check(s1, s2) == Return(sum_ne(zip(s1, s2)))

\* mutant: counts the positions that agree
hamming_counts_equal(s1, s2) ==
    IF Len(s1) # Len(s2) THEN Raise("ValueError")
    ELSE Return(Len(s1) - sum_ne(zip(s1, s2)))

\* mutant: the first position is never compared
hamming_skips_first(s1, s2) ==
    IF Len(s1) # Len(s2) THEN Raise("ValueError")
    ELSE Return(IF Len(s1) = 0 THEN 0 ELSE sum_ne(Tail(zip(s1, s2))))

find_hamming_distance(s1, s2) ==
    IF Len(s1) # Len(s2) THEN Raise("ValueError")
    ELSE Return(sum_ne(zip(s1, s2)))

get_hamming_distance(s1, s2) ==
    IF Len(s1) # Len(s2) THEN Raise("ValueError")
    ELSE Return(sum_ne(zip(s1, s2)))

-----------------------------------------------------------------------------
(* The node universe: graph.py 110-113, features.py 67-70 *)

\* list(alphabet): the one-character strings of the str, in order
list(s) == [k \in 1..Len(s) |-> <<s[k]>>]

\* itertools.product(pool, repeat=repeat): the last position varies fastest
RECURSIVE product(_, _)
product(pool, repeat) ==
    IF repeat = 0 THEN << <<>> >>
    ELSE LET result == product(pool, repeat - 1)
             n      == Len(pool)
         IN  [k \in 1..(Len(result) * n) |->
                 Append(result[((k - 1) \div n) + 1], pool[((k - 1) % n) + 1])]

\* "".join(p)
RECURSIVE join(_)
join(p) == IF Len(p) = 0 THEN <<>> ELSE p[1] \o join(Tail(p))

\* mutant: the comprehension drops the last tuple of the product
all_words_drops_last(alpha, length) ==
    LET ps == product(list(alpha), length)
    IN  [k \in 1..(Len(ps) - 1) |-> join(ps[k])]

\* ["".join(p) for p in itertools.product(alphabet, repeat=word_length)]
all_words(alpha, length) ==
    LET ps == product(list(alpha), length)
    IN  [k \in 1..Len(ps) |-> join(ps[k])]

-----------------------------------------------------------------------------
(* nx.Graph: node keeps the insertion order of the node dict, data holds    *)
(* the is_valid_word attribute of the nodes that have one, edge is the set  *)
(* of unordered pairs.                                                      *)

EmptyGraph == [node |-> <<>>, data |-> <<>>, edge |-> {}]

InSeq(x, s) == \E k \in DOMAIN s : s[k] = x

\* G.add_nodes_from(ns): a node already present is not added again
RECURSIVE add_nodes_from(_, _)
add_nodes_from(g, ns) ==
    IF Len(ns) = 0 THEN g
    ELSE add_nodes_from(
            IF InSeq(ns[1], g.node) THEN g
            ELSE [g EXCEPT !.node = Append(@, ns[1])],
            Tail(ns))

\* G.add_edge(u, v): adds the endpoints when missing; the same pair twice is one edge
add_edge(g, u, v) ==
    LET g1 == add_nodes_from(g, <<u, v>>)
    IN  [g1 EXCEPT !.edge = @ \cup {{u, v}}]

\* G.nodes[n]["is_valid_word"] = value
set_is_valid_word(g, n, value) ==
    [g EXCEPT !.data = (n :> value) @@ @]

\* G.degree(n): a self-loop counts twice
degree(g, n) ==
    Cardinality({e \in g.edge : n \in e /\ e # {n}})
    + (IF {n} \in g.edge THEN 2 ELSE 0)

-----------------------------------------------------------------------------
(* Direct calls of the two Hamming functions *)

InitIdleBuild ==
    /\ pc = "idle" /\ alphabet = <<>> /\ word_length = 0 /\ valid_words = {}
    /\ connect = FALSE /\ nodes = <<>> /\ G = EmptyGraph
    /\ valid_word_nodes = <<>> /\ i = 1 /\ j = 1 /\ nassign = <<>>
    /\ err = "none"

InitIdleAnalyze ==
    /\ aloof = FALSE /\ diameter = FALSE /\ betweenness = FALSE
    /\ view = EmptyGraph
    /\ ranking = NoRanking /\ report = NoReport

InitIdleHamming ==
    /\ string1 = <<>> /\ string2 = <<>>
    /\ hresult = NoResult /\ gresult = NoResult /\ hpc = "idle"

InitHamming ==
    /\ string1 \in StringsUpTo(HammingChars, MaxStrLen)
    /\ string2 \in StringsUpTo(HammingChars, MaxStrLen)
    /\ hresult = NoResult /\ gresult = NoResult /\ hpc = "call"
    /\ InitIdleBuild /\ InitIdleAnalyze

CallHamming ==
    /\ hpc = "call"
    /\ hresult' = find_hamming_distance(string1, string2)
    /\ gresult' = get_hamming_distance(string1, string2)
    /\ hpc' = "done"
    /\ UNCHANGED <<string1, string2, bvars, avars>>

NextHamming == CallHamming

SpecHamming == InitHamming /\ [][NextHamming]_vars

-----------------------------------------------------------------------------
(* graph.build: graph.py 92-142 *)

\* the alphabets and word lengths whose universe fits the bound
UniverseFits(alpha, length) == Pow(Len(alpha), length) <= MaxNodes

InitBuild ==
    /\ pc = "build"
    /\ alphabet \in Alphabets
    /\ word_length \in 0..MaxWordLen
    /\ UniverseFits(alphabet, word_length)
    /\ valid_words \in SUBSET (Range(all_words(alphabet, word_length))
                               \cup StrayWords)
    /\ connect = FALSE /\ nodes = <<>> /\ G = EmptyGraph
    /\ valid_word_nodes = <<>> /\ i = 1 /\ j = 1 /\ nassign = <<>>
    /\ err = "none"
    /\ InitIdleAnalyze /\ InitIdleHamming

\* lines 110-125: the list of all words, and a graph holding them as nodes
BuildNodes ==
    /\ pc = "build"
    /\ nodes' = all_words(alphabet, word_length)
    /\ G' = add_nodes_from(EmptyGraph, nodes')
    /\ nassign' = [n \in Range(G'.node) |-> 0]
    /\ i' = 1
    /\ pc' = "assign"
    /\ UNCHANGED <<alphabet, word_length, valid_words, connect,
                   valid_word_nodes, j, err, hvars, avars>>

\* mutant: every node is tagged a valid word
is_valid_word_always(node, words) == TRUE

\* node in valid_words
is_valid_word(node, words) == node \in words

\* lines 128-129, one iteration: tag the i-th node of G.nodes()
AssignStep ==
    /\ pc = "assign"
    /\ i <= Len(G.node)
    /\ LET node == G.node[i]
       IN  /\ G' = set_is_valid_word(G, node, is_valid_word(node, valid_words))
           /\ nassign' = [nassign EXCEPT ![node] = @ + 1]
    /\ i' = i + 1
    /\ UNCHANGED <<pc, alphabet, word_length, valid_words, connect, nodes,
                   valid_word_nodes, j, err, hvars, avars>>

\* mutant: the filter is missing, every node enters the pairwise pass
select_all_nodes(g) == g.node

\* [node for node in G.nodes() if G.nodes[node]["is_valid_word"]]
select_valid_word_nodes(g) ==
    LET tagged(n) == g.data[n]
    IN  SelectSeq(g.node, tagged)

\* line 132, reached when the loop of lines 128-129 is exhausted
SelectValid ==
    /\ pc = "assign"
    /\ i > Len(G.node)
    /\ valid_word_nodes' = select_valid_word_nodes(G)
    /\ i' = 1 /\ j' = 1
    /\ pc' = "connect"
    /\ UNCHANGED <<alphabet, word_length, valid_words, connect, nodes, G,
                   nassign, err, hvars, avars>>

\* the loop indices after the iteration (i, j) over a list of n entries
NextPair(n) ==
    IF j < n THEN i' = i /\ j' = j + 1 ELSE i' = i + 1 /\ j' = 1

\* lines 133-136, one iteration of the inner loop
ConnectStep ==
    /\ pc = "connect"
    /\ i <= Len(valid_word_nodes)
    /\ LET n1 == valid_word_nodes[i]
           n2 == valid_word_nodes[j]
           d  == find_hamming_distance(n1, n2)
       IN  IF i < j /\ d.exc # "none"
           THEN /\ err' = d.exc
                /\ pc' = "build_crashed"
                /\ UNCHANGED <<G, i, j>>
           ELSE /\ G' = IF i < j /\ d.val = 1 THEN add_edge(G, n1, n2) ELSE G
                /\ NextPair(Len(valid_word_nodes))
                /\ UNCHANGED <<pc, err>>
    /\ UNCHANGED <<alphabet, word_length, valid_words, connect, nodes,
                   valid_word_nodes, nassign, hvars, avars>>

\* lines 138-142, reached when the outer loop is exhausted: the graph is pickled
SaveGraph ==
    /\ pc = "connect"
    /\ i > Len(valid_word_nodes)
    /\ pc' = "built"
    /\ UNCHANGED <<alphabet, word_length, valid_words, connect, nodes, G,
                   valid_word_nodes, i, j, nassign, err, hvars, avars>>

-----------------------------------------------------------------------------
(* networkx, as graph.analyze and graph.find_diameter use it *)

NodeSet(g) == Range(g.node)

neighbors(g, n) == { m \in NodeSet(g) : {n, m} \in g.edge }

\* breadth-first search: dist maps the nodes reached so far to their level
RECURSIVE bfs(_, _, _, _)
bfs(g, frontier, level, dist) ==
    IF frontier = {} THEN dist
    ELSE LET found == (UNION { neighbors(g, n) : n \in frontier })
                          \ DOMAIN dist
         IN  bfs(g, found, level + 1,
                 [n \in DOMAIN dist \cup found |->
                     IF n \in found THEN level + 1 ELSE dist[n]])

\* nx.shortest_path_length(G, source=n): the nodes reachable from n, with
\* their distances
shortest_path_length(g, source) ==
    bfs(g, {source}, 0, [n \in {source} |-> 0])

MaxOf(S) == CHOOSE x \in S : \A y \in S : y <= x

\* mutant: a node that does not reach every node keeps the largest distance
\* it found, no error is raised
eccentricity_ignores_unreached(g) ==
    Return([n \in NodeSet(g) |->
              LET length == shortest_path_length(g, n)
              IN  MaxOf({ length[m] : m \in DOMAIN length })])

\* nx.eccentricity(G): raises when some node does not reach every node,
\* else the dict node -> largest distance
eccentricity(g) ==
    IF \E n \in NodeSet(g) :
           Cardinality(DOMAIN shortest_path_length(g, n)) # Len(g.node)
    THEN Raise("NetworkXError")
    ELSE Return([n \in NodeSet(g) |->
                   LET length == shortest_path_length(g, n)
                   IN  MaxOf({ length[m] : m \in DOMAIN length })])

\* nx.diameter(G): max(e.values()), which raises on an empty dict
nx_diameter(g) ==
    LET e == eccentricity(g)
    IN  IF e.exc # "none" THEN Raise(e.exc)
        ELSE IF DOMAIN e.val = {} THEN Raise("ValueError")
        ELSE Return(MaxOf({ e.val[n] : n \in DOMAIN e.val }))

\* nx.periphery(G): [v for v in e if e[v] == diameter], in node order
nx_periphery(g) ==
    LET e == eccentricity(g)
    IN  IF e.exc # "none" THEN Raise(e.exc)
        ELSE IF DOMAIN e.val = {} THEN Raise("ValueError")
        ELSE LET d == MaxOf({ e.val[n] : n \in DOMAIN e.val })
                 peripheral(v) == e.val[v] = d
             IN  Return(SelectSeq(g.node, peripheral))

\* nx.shortest_path(G, source, target): the shortest paths between the two
\* nodes, of which the library returns one
RECURSIVE shortest_paths(_, _, _)
shortest_paths(g, source, target) ==
    LET dist == shortest_path_length(g, source)
    IN  IF target \notin DOMAIN dist THEN {}
        ELSE IF target = source THEN { <<source>> }
        ELSE UNION { { Append(p, target) : p \in shortest_paths(g, source, m) } :
                     m \in { m \in neighbors(g, target) : dist[m] = dist[target] - 1 } }

\* the sum of f over the finite set S
RECURSIVE SumOver(_, _)
SumOver(f, S) ==
    IF S = {} THEN 0
    ELSE LET x == CHOOSE x \in S : TRUE IN f[x] + SumOver(f, S \ {x})

RECURSIVE Gcd(_, _)
Gcd(a, b) == IF b = 0 THEN a ELSE Gcd(b, a % b)

\* least common multiple of a finite set of positive integers
RECURSIVE Lcm(_)
Lcm(S) ==
    IF S = {} THEN 1
    ELSE LET x == CHOOSE x \in S : TRUE
             r == Lcm(S \ {x})
         IN  (x * r) \div Gcd(x, r)

\* the number of shortest paths from the source of dist to t
RECURSIVE path_count(_, _, _)
path_count(g, dist, t) ==
    IF dist[t] = 0 THEN 1
    ELSE LET before == { m \in neighbors(g, t) : dist[m] = dist[t] - 1 }
         IN  SumOver([m \in before |-> path_count(g, dist, m)], before)

\* the one member of a singleton set; binding a value through a singleton
\* set evaluates it once
The(S) == CHOOSE x \in S : TRUE

\* the scores, given the distances dist[s][t] and path counts sigma[s][t]
\* of the pairs joined by a path
betweenness_from(g, dist, sigma) ==
    LET N == NodeSet(g)
        n == Len(g.node)
        joined == { r \in N \X N : r[2] \in DOMAIN dist[r[1]] }
        D == Lcm({ sigma[q[1]][q[2]] : q \in joined })
        pairs(v) == { q \in joined :
                        /\ q[1] # q[2] /\ q[1] # v /\ q[2] # v
                        /\ v \in DOMAIN dist[q[1]]
                        /\ dist[q[1]][v] + dist[v][q[2]] = dist[q[1]][q[2]] }
        share(v) == [q \in pairs(v) |->
                        (sigma[q[1]][v] * sigma[v][q[2]] * D) \div sigma[q[1]][q[2]]]
    IN  [v \in N |->
            [num |-> SumOver(share(v), pairs(v)),
             den |-> IF n > 2 THEN D * (n - 1) * (n - 2) ELSE D]]

\* nx.betweenness_centrality(G), normalized: for every node the sum, over
\* the ordered pairs (s, t) of other nodes joined by a path, of the fraction
\* of the shortest s-t paths through the node, times 1/((n-1)(n-2)) when
\* n > 2.  The scores are exact fractions num/den over one denominator.
nx_betweenness_centrality(g) ==
    The({ The({ betweenness_from(g, dist, sigma) :
                sigma \in { [s \in NodeSet(g) |->
                              [t \in DOMAIN dist[s] |-> path_count(g, dist[s], t)]] } }) :
          dist \in { [s \in NodeSet(g) |-> shortest_path_length(g, s)] } })

\* f"{centrality:.4f}": the score in ten-thousandths, halves to even
four_decimals(num, den) ==
    LET q == (num * 10000) \div den
        r == (num * 10000) % den
    IN  IF 2 * r > den \/ (2 * r = den /\ q % 2 = 1) THEN q + 1 ELSE q

\* x put behind the entries of the sorted list that score at least as much
insert_by_score(scores, sorted, x) ==
    LET ahead == { k \in 1..Len(sorted) : scores[sorted[k]].num >= scores[x].num }
        at    == IF ahead = {} THEN 0 ELSE MaxOf(ahead)
    IN  SubSeq(sorted, 1, at) \o <<x>> \o SubSeq(sorted, at + 1, Len(sorted))

\* sorted(items, key=score, reverse=True): equal scores keep the node order
RECURSIVE sorted_by_score(_, _)
sorted_by_score(scores, order) ==
    IF Len(order) = 0 THEN <<>>
    ELSE The({ insert_by_score(scores, rest, order[Len(order)]) :
               rest \in { sorted_by_score(scores, SubSeq(order, 1, Len(order) - 1)) } })

\* the lines printed for sorted(...)[:5]: node and score
top_five(scores, all) ==
    [k \in 1..Min(5, Len(all)) |->
        [node |-> all[k],
         score |-> four_decimals(scores[all[k]].num, scores[all[k]].den)]]

\* lines 57-61: the ranking printed for the graph
most_central(g) ==
    The({ The({ top_five(scores, all) : all \in { sorted_by_score(scores, g.node) } }) :
          scores \in { nx_betweenness_centrality(g) } })

\* the orders in which the nodes of a set can be iterated
Orderings(S) ==
    { p \in [1..Cardinality(S) -> S] : \A a, b \in DOMAIN p : a # b => p[a] # p[b] }

\* G.subgraph(ns) with its nodes iterated in the order given by node_order
subgraph_in_order(g, node_order) ==
    [node |-> node_order,
     data |-> [n \in DOMAIN g.data \cap Range(node_order) |-> g.data[n]],
     edge |-> { e \in g.edge : e \subseteq Range(node_order) }]

\* the node orders of G.subgraph(ns): the view iterates the set ns itself when
\* it holds fewer than half of the nodes of G (hash order), else the nodes of
\* G in their order, filtered
subgraph_orders(g, ns) ==
    LET kept(n) == n \in Range(ns)
    IN  IF 2 * Cardinality(Range(ns)) < Len(g.node)
        THEN Orderings(Range(ns))
        ELSE { SelectSeq(g.node, kept) }

\* [n for n, d in G.degree() if d > 0]
no_aloof_nodes(g) ==
    LET connected(n) == degree(g, n) > 0
    IN  SelectSeq(g.node, connected)

-----------------------------------------------------------------------------
(* graph.analyze: graph.py 146-190, and graph.find_diameter: graph.py 75-88 *)

\* mutant: without --aloof the degree-0 nodes are removed from the loaded
\* graph itself (G.remove_nodes_from), and the analyses run on it
AnalyzeLoad_filters_in_place ==
    /\ pc = "built"
    /\ \E a \in BOOLEAN, d \in BOOLEAN, b \in BOOLEAN :
          /\ aloof' = a
          /\ diameter' = d
          /\ betweenness' = b
          /\ G' = IF a THEN G ELSE subgraph_in_order(G, no_aloof_nodes(G))
          /\ view' = G'
          /\ pc' = IF b THEN "centrality" ELSE "analyze"
    /\ UNCHANGED <<alphabet, word_length, valid_words, connect, nodes,
                   valid_word_nodes, i, j, nassign, err, ranking, report,
                   hvars>>

\* lines 164-176: load the pickled graph; without --aloof continue on the
\* subgraph of the nodes of degree > 0
AnalyzeLoad ==
    /\ pc = "built"
    /\ \E a \in BOOLEAN, d \in BOOLEAN, b \in BOOLEAN :
          /\ aloof' = a
          /\ diameter' = d
          /\ betweenness' = b
          /\ IF a THEN view' = G
             ELSE \E order \in subgraph_orders(G, no_aloof_nodes(G)) :
                     view' = subgraph_in_order(G, order)
          /\ pc' = IF b THEN "centrality" ELSE "analyze"
    /\ UNCHANGED <<alphabet, word_length, valid_words, connect, nodes, G,
                   valid_word_nodes, i, j, nassign, err, ranking, report,
                   hvars>>

\* lines 178-180 with --betweenness, find_betweenness_centrality (lines
\* 57-61) as a whole
FindBetweennessCentrality ==
    /\ pc = "centrality"
    /\ ranking' = [printed |-> TRUE,
                   top |-> most_central(view)]
    /\ pc' = "analyze"
    /\ UNCHANGED <<alphabet, word_length, valid_words, connect, nodes, G,
                   valid_word_nodes, i, j, nassign, err, aloof, diameter,
                   betweenness, view, report, hvars>>

\* lines 182-184 with --diameter, find_diameter (lines 77-87) as a whole
FindDiameter ==
    /\ pc = "analyze"
    /\ diameter
    /\ LET d == nx_diameter(view)
           p == nx_periphery(view)
       IN  IF d.exc # "none"
           THEN err' = d.exc /\ pc' = "crashed" /\ UNCHANGED report
           ELSE IF p.exc # "none"
           THEN err' = p.exc /\ pc' = "crashed" /\ UNCHANGED report
           ELSE IF Len(p.val) < 2
           THEN err' = "IndexError" /\ pc' = "crashed" /\ UNCHANGED report
           ELSE IF shortest_paths(view, p.val[1], p.val[2]) = {}
           THEN err' = "NetworkXNoPath" /\ pc' = "crashed" /\ UNCHANGED report
           ELSE \E path \in shortest_paths(view, p.val[1], p.val[2]) :
                   /\ report' = [printed |-> TRUE, diameter |-> d.val,
                                 path |-> path]
                   /\ pc' = "done"
                   /\ UNCHANGED err
    /\ UNCHANGED <<alphabet, word_length, valid_words, connect, nodes, G,
                   valid_word_nodes, i, j, nassign, aloof, diameter,
                   betweenness, view, ranking, hvars>>

\* line 190 without --diameter
AnalyzeDone ==
    /\ pc = "analyze"
    /\ ~diameter
    /\ pc' = "done"
    /\ UNCHANGED <<alphabet, word_length, valid_words, connect, nodes, G,
                   valid_word_nodes, i, j, nassign, err, hvars, avars>>

Next ==
    \/ BuildNodes
    \/ AssignStep
    \/ SelectValid
    \/ ConnectStep
    \/ SaveGraph
    \/ AnalyzeLoad
    \/ FindBetweennessCentrality
    \/ FindDiameter
    \/ AnalyzeDone

Spec == InitBuild /\ [][Next]_vars

-----------------------------------------------------------------------------
(* features.build_graph: features.py 51-90 *)

InitFeatures ==
    /\ pc = "build_graph"
    /\ alphabet \in Alphabets
    /\ word_length \in 0..MaxWordLen
    /\ UniverseFits(alphabet, word_length)
    /\ connect \in BOOLEAN
    /\ valid_words = {}
    /\ nodes = <<>> /\ G = EmptyGraph
    /\ valid_word_nodes = <<>> /\ i = 1 /\ j = 1 /\ nassign = <<>>
    /\ err = "none"
    /\ InitIdleAnalyze /\ InitIdleHamming

\* lines 67-79: the list of all words, a graph holding them as nodes, and
\* the branch on --connect
GraphNodes ==
    /\ pc = "build_graph"
    /\ nodes' = all_words(alphabet, word_length)
    /\ G' = add_nodes_from(EmptyGraph, nodes')
    /\ i' = 1 /\ j' = 1
    /\ pc' = IF connect THEN "add_edges" ELSE "save"
    /\ UNCHANGED <<alphabet, word_length, valid_words, connect,
                   valid_word_nodes, nassign, err, hvars, avars>>

\* mutant: the test is i <= j and the distance bound is <= 1
dense_pair_joined_le(a, b, n1, n2) ==
    a <= b /\ get_hamming_distance(n1, n2).val <= 1

\* i < j and get_hamming_distance(node1, node2) == 1, when nothing is raised
dense_pair_joined(a, b, n1, n2) ==
    a < b /\ get_hamming_distance(n1, n2).val = 1

\* lines 81-84, one iteration of the inner loop over the list nodes
AddEdgeStep ==
    /\ pc = "add_edges"
    /\ i <= Len(nodes)
    /\ LET node1 == nodes[i]
           node2 == nodes[j]
           d     == get_hamming_distance(node1, node2)
       IN  IF i < j /\ d.exc # "none"
           THEN /\ err' = d.exc
                /\ pc' = "build_crashed"
                /\ UNCHANGED <<G, i, j>>
           ELSE /\ G' = IF dense_pair_joined(i, j, node1, node2)
                        THEN add_edge(G, node1, node2) ELSE G
                /\ NextPair(Len(nodes))
                /\ UNCHANGED <<pc, err>>
    /\ UNCHANGED <<alphabet, word_length, valid_words, connect, nodes,
                   valid_word_nodes, nassign, hvars, avars>>

\* the loop of line 81 is exhausted
AddEdgesDone ==
    /\ pc = "add_edges"
    /\ i > Len(nodes)
    /\ pc' = "save"
    /\ UNCHANGED <<alphabet, word_length, valid_words, connect, nodes, G,
                   valid_word_nodes, i, j, nassign, err, hvars, avars>>

\* lines 86-90: the graph is pickled
SaveDenseGraph ==
    /\ pc = "save"
    /\ pc' = "graph_saved"
    /\ UNCHANGED <<alphabet, word_length, valid_words, connect, nodes, G,
                   valid_word_nodes, i, j, nassign, err, hvars, avars>>

-----------------------------------------------------------------------------
(* features.assign_words, run on the graph build_graph pickled:            *)
(* features.py 92-134                                                      *)

\* lines 108-115: load the pickled graph and the word file
LoadGraphAndWords ==
    /\ pc = "graph_saved"
    /\ valid_words' \in SUBSET (NodeSet(G) \cup StrayWords)
    /\ nassign' = [n \in NodeSet(G) |-> 0]
    /\ i' = 1
    /\ pc' = "assign_words"
    /\ UNCHANGED <<alphabet, word_length, connect, nodes, G,
                   valid_word_nodes, j, err, hvars, avars>>

\* lines 118-119, one iteration: tag the i-th node of G.nodes()
AssignWordStep ==
    /\ pc = "assign_words"
    /\ i <= Len(G.node)
    /\ LET node == G.node[i]
       IN  /\ G' = set_is_valid_word(G, node, is_valid_word(node, valid_words))
           /\ nassign' = [nassign EXCEPT ![node] = @ + 1]
    /\ i' = i + 1
    /\ UNCHANGED <<pc, alphabet, word_length, valid_words, connect, nodes,
                   valid_word_nodes, j, err, hvars, avars>>

\* line 123, reached when the loop of lines 118-119 is exhausted
SelectValidWords ==
    /\ pc = "assign_words"
    /\ i > Len(G.node)
    /\ valid_word_nodes' = select_valid_word_nodes(G)
    /\ i' = 1 /\ j' = 1
    /\ pc' = "connect_words"
    /\ UNCHANGED <<alphabet, word_length, valid_words, connect, nodes, G,
                   nassign, err, hvars, avars>>

\* lines 124-129, one iteration of the inner loop
ConnectWordsStep ==
    /\ pc = "connect_words"
    /\ i <= Len(valid_word_nodes)
    /\ LET n1 == valid_word_nodes[i]
           n2 == valid_word_nodes[j]
           d  == get_hamming_distance(n1, n2)
           both_valid == G.data[n1] /\ G.data[n2]
       IN  IF i < j /\ both_valid /\ d.exc # "none"
           THEN /\ err' = d.exc
                /\ pc' = "build_crashed"
                /\ UNCHANGED <<G, i, j>>
           ELSE /\ G' = IF i < j /\ both_valid /\ d.val = 1
                        THEN add_edge(G, n1, n2) ELSE G
                /\ NextPair(Len(valid_word_nodes))
                /\ UNCHANGED <<pc, err>>
    /\ UNCHANGED <<alphabet, word_length, valid_words, connect, nodes,
                   valid_word_nodes, nassign, hvars, avars>>

\* lines 130-134, reached when the outer loop is exhausted: the graph is
\* pickled again
SaveAssignedGraph ==
    /\ pc = "connect_words"
    /\ i > Len(valid_word_nodes)
    /\ pc' = "words_assigned"
    /\ UNCHANGED <<alphabet, word_length, valid_words, connect, nodes, G,
                   valid_word_nodes, i, j, nassign, err, hvars, avars>>

NextFeatures ==
    \/ GraphNodes
    \/ AddEdgeStep
    \/ AddEdgesDone
    \/ SaveDenseGraph
    \/ LoadGraphAndWords
    \/ AssignWordStep
    \/ SelectValidWords
    \/ ConnectWordsStep
    \/ SaveAssignedGraph

SpecFeatures == InitFeatures /\ [][NextFeatures]_vars

-----------------------------------------------------------------------------
(* Properties *)

\* the positions at which two strings of one length differ
DifferingPositions(a, b) == { k \in 1..Len(a) : a[k] # b[k] }

\* C1: for equal-length strings both Hamming functions return the number of
\* positions at which the strings differ; it lies in 0..len, it is the same
\* with the arguments swapped, and it is 0 for a string and itself.
C1_HammingCountsDifferences ==
    (hpc = "done" /\ Len(string1) = Len(string2)) =>
        /\ hresult = Return(Cardinality(DifferingPositions(string1, string2)))
        /\ gresult = hresult
        /\ hresult.val \in 0..Len(string1)
        /\ find_hamming_distance(string2, string1) = hresult
        /\ get_hamming_distance(string2, string1) = gresult
        /\ (string1 = string2 => hresult.val = 0)

\* two distinct strings of one length, compared, differing in more than one place
C1_Witness ==
    /\ hpc = "done" /\ Len(string1) = Len(string2)
    /\ hresult.exc = "none" /\ hresult.val = 2

\* C2: for strings of different lengths both Hamming functions raise the
\* length error and return no integer.
C2_LengthMismatchRaises ==
    (hpc = "done" /\ Len(string1) # Len(string2)) =>
        /\ hresult = Raise("ValueError")
        /\ gresult = Raise("ValueError")

\* a longer string whose prefix equals the shorter one: truncation would give 0
C2_Witness ==
    /\ hpc = "done" /\ Len(string1) = 2 /\ Len(string2) = 3
    /\ SubSeq(string2, 1, 2) = string1
    /\ hresult.exc = "ValueError"

\* the strings of exactly n characters over the characters C
StringsOfLength(C, n) == [1..n -> C]

\* Hamming distance 1, stated on the positions
DifferInOnePosition(u, v) ==
    Len(u) = Len(v) /\ Cardinality(DifferingPositions(u, v)) = 1

\* the unordered pairs of members of V that differ in one position
LaddersAmong(V) ==
    { {q[1], q[2]} : q \in { r \in V \X V : DifferInOnePosition(r[1], r[2]) } }

\* graph.build ran to its end and pickled the graph
BuildFinished == pc \in {"built", "centrality", "analyze", "done", "crashed"}

\* C3: in valid-word mode the final edge set is exactly the set of pairs of
\* nodes of the universe that are both valid words and differ in one
\* position; with no valid words the graph has no edges and build raises
\* nothing.
C3_ValidModeEdgeSet ==
    /\ pc # "build_crashed"
    /\ BuildFinished =>
         /\ G.edge = LaddersAmong(Range(nodes) \cap valid_words)
         /\ (valid_words = {} => G.edge = {})
    /\ pc \in {"built", "centrality", "analyze"} => err = "none"

\* the scenario alphabet abc, length 2, valid words aa, ab, bb
C3_Witness ==
    /\ pc = "built"
    /\ alphabet = <<"a", "b", "c">> /\ word_length = 2
    /\ valid_words = { <<"a", "a">>, <<"a", "b">>, <<"b", "b">> }
    /\ G.edge = { { <<"a", "a">>, <<"a", "b">> }, { <<"a", "b">>, <<"b", "b">> } }

\* C4: in valid-word mode, during and after the pairwise pass, no edge has
\* an endpoint tagged is_valid_word = False, and every node outside
\* valid_words has degree 0.
C4_NoEdgeAtInvalidNode ==
    /\ \A e \in G.edge : \A n \in e : n \in DOMAIN G.data /\ G.data[n]
    /\ \A n \in NodeSet(G) : n \notin valid_words => degree(G, n) = 0

\* in the middle of the pairwise pass, an edge added, a non-word node present
C4_Witness ==
    /\ pc = "connect" /\ i <= Len(valid_word_nodes)
    /\ G.edge # {}
    /\ \E n \in NodeSet(G) : ~G.data[n]

\* C5: in dense mode two distinct nodes are joined iff they differ in one
\* position, so every node has degree L*(k-1), k the number of distinct
\* characters of the alphabet.
C5_DenseDegree ==
    (pc = "graph_saved" /\ connect) =>
        /\ G.edge = LaddersAmong(NodeSet(G))
        /\ \A n \in NodeSet(G) :
              degree(G, n) = word_length * (Cardinality(Range(alphabet)) - 1)

\* the dense graph over abc, length 2: nine nodes of degree 4
C5_Witness ==
    /\ pc = "graph_saved" /\ connect
    /\ alphabet = <<"a", "b", "c">> /\ word_length = 2
    /\ Len(G.node) = 9
    /\ \A n \in NodeSet(G) : degree(G, n) = 4

\* the alphabet repeats no character
DistinctChars(alpha) ==
    \A a, b \in DOMAIN alpha : a # b => alpha[a] # alpha[b]

\* position of a character in an alphabet without repeats
IndexIn(alpha, c) == CHOOSE k \in DOMAIN alpha : alpha[k] = c

\* u comes before v in the order the alphabet induces
LexLess(alpha, u, v) ==
    \E k \in 1..Len(u) :
        /\ \A m \in 1..(k - 1) : u[m] = v[m]
        /\ IndexIn(alpha, u[k]) < IndexIn(alpha, v[k])

\* C6: the node universe over an alphabet of k distinct characters and
\* length L holds every string of L characters over the alphabet, each once,
\* in the lexicographic order the alphabet induces, so the graph has k^L
\* nodes; length 0 gives the empty string alone, an empty alphabet with
\* length > 0 gives no node.
C6_NodeUniverse ==
    (pc # "build_graph" /\ DistinctChars(alphabet)) =>
        /\ Range(nodes) = StringsOfLength(Range(alphabet), word_length)
        /\ \A a, b \in DOMAIN nodes :
              a < b => nodes[a] # nodes[b] /\ LexLess(alphabet, nodes[a], nodes[b])
        /\ Len(nodes) = Pow(Len(alphabet), word_length)
        /\ G.node = nodes
        /\ (word_length = 0 => nodes = << <<>> >>)
        /\ (Len(alphabet) = 0 /\ word_length > 0 => nodes = <<>>)

\* alphabet "ba", length 2: the order follows the alphabet, not the characters
C6_Witness ==
    /\ pc = "graph_saved"
    /\ alphabet = <<"b", "a">> /\ word_length = 2
    /\ nodes = << <<"b", "b">>, <<"b", "a">>, <<"a", "b">>, <<"a", "a">> >>

\* C7: in valid-word mode the node set is the whole universe whatever
\* valid_words holds, no node is tagged more than once, and once the tagging
\* loop has ended every node carries is_valid_word, stored once and true iff
\* the node is in valid_words.
C7_ValidWordAttribute ==
    /\ pc # "build" =>
         /\ NodeSet(G) = StringsOfLength(Range(alphabet), word_length)
         /\ \A n \in NodeSet(G) : nassign[n] <= 1
    /\ pc \notin {"build", "assign"} =>
         \A n \in NodeSet(G) :
            /\ n \in DOMAIN G.data
            /\ G.data[n] = (n \in valid_words)
            /\ nassign[n] = 1

\* built with a word, a non-word, and a line of the file that is no node
C7_Witness ==
    /\ pc = "built"
    /\ \E n \in NodeSet(G) : G.data[n]
    /\ \E n \in NodeSet(G) : ~G.data[n]
    /\ valid_words \ NodeSet(G) # {}

\* C8 (as claimed): a build whose valid_words holds a word of another length
\* than word_length does not complete without raising.
C8_WrongLengthWordRaises ==
    (BuildFinished /\ \E w \in valid_words : Len(w) # word_length) =>
        err # "none"

\* the periphery of a connected graph, from the distances
Eccentricity(g, n) ==
    MaxOf({ shortest_path_length(g, n)[m] : m \in NodeSet(g) })

\* C9 (as claimed): the path find_diameter prints runs between two periphery
\* nodes and has as many edges as the diameter it prints, the largest
\* eccentricity.
C9_DiameterPathIsLongest ==
    (pc = "done" /\ report.printed) =>
        /\ report.diameter = MaxOf({ Eccentricity(view, n) : n \in NodeSet(view) })
        /\ Eccentricity(view, report.path[1]) = report.diameter
        /\ Eccentricity(view, report.path[Len(report.path)]) = report.diameter
        /\ Len(report.path) - 1 = report.diameter

\* the graph falls into two or more parts with no edge between them
Disconnected(g) ==
    \E S \in SUBSET NodeSet(g) :
        /\ S # {} /\ S # NodeSet(g)
        /\ \A e \in g.edge : e \subseteq S \/ e \cap S = {}

\* C10: find_diameter on a graph of two or more components, the filtered
\* graph of analyze included, ends in the not-connected error of networkx
\* and prints neither a diameter nor a path.
C10_DisconnectedRaises ==
    /\ (pc = "analyze" /\ diameter /\ Disconnected(view)) =>
          nx_diameter(view).exc = "NetworkXError"
    /\ (pc \in {"done", "crashed"} /\ diameter /\ Disconnected(view)) =>
          /\ pc = "crashed"
          /\ err = "NetworkXError"
          /\ report = NoReport

\* degree-0 nodes filtered out, two components left, the error raised
C10_Witness ==
    /\ pc = "crashed" /\ err = "NetworkXError"
    /\ diameter /\ ~aloof
    /\ Len(view.node) < Len(G.node)
    /\ Cardinality(view.edge) >= 2
    /\ Disconnected(view)

\* C11 (as claimed): on a graph of fewer than 2 nodes the betweenness
\* analysis prints no ranking and the diameter analysis prints nothing and
\* ends in a rejection of the input, not in the ValueError of max() on an
\* empty dict or the IndexError of periphery[1], and not without an error.
C11_SmallGraphRejected ==
    Len(view.node) < 2 =>
        /\ (betweenness /\ pc \in {"analyze", "done", "crashed"}) =>
              ~ranking.printed
        /\ (diameter /\ pc \in {"done", "crashed"}) =>
              /\ ~report.printed
              /\ err \notin {"none", "ValueError", "IndexError"}

\* analyze has loaded the graph
AnalysisRunning == pc \in {"centrality", "analyze", "done", "crashed"}

\* C12: with aloof nodes excluded the analysed graph holds exactly the nodes
\* of degree > 0, with their attributes, and exactly the edges between them;
\* the loaded graph (nodes, attributes, edges) is changed neither by the
\* filtering nor by an analysis run after it.
C12_FilterLeavesGraph ==
    /\ [](AnalysisRunning /\ ~aloof =>
            /\ NodeSet(view) = { n \in NodeSet(G) : degree(G, n) > 0 }
            /\ Len(view.node) = Cardinality(NodeSet(view))
            /\ view.edge = { e \in G.edge : e \subseteq NodeSet(view) }
            /\ view.data = [n \in NodeSet(view) |-> G.data[n]])
    /\ [][pc = "built" \/ AnalysisRunning => G' = G]_vars

\* aloof nodes filtered out, both analyses run to their end on what is left
C12_Witness ==
    /\ pc = "done" /\ ~aloof
    /\ ranking.printed /\ report.printed
    /\ view.edge # {}
    /\ Len(view.node) < Len(G.node)

\* C14 (as claimed): build_graph followed by assign_words, with or without
\* --connect, leaves no edge at a node tagged is_valid_word = False, and
\* the edge set graph.build gives for the same alphabet, length and words:
\* the pairs of valid-word nodes that differ in one position (C3).
C14_PipelineMatchesBuild ==
    pc = "words_assigned" =>
        /\ \A e \in G.edge : \A n \in e : G.data[n]
        /\ G.edge = LaddersAmong(NodeSet(G) \cap valid_words)

====
